---- MODULE Spec2Model ----
(***************************************************************************)
(* Chips, interactions and the logup permutation argument of the proving   *)
(* engine (core/src/stark/chip.rs, core/src/lookup/interaction.rs,         *)
(* core/src/air/virtual_column.rs), and the trace generators of the        *)
(* ShaExtend and FriFold precompiles.                                      *)
(*                                                                         *)
(* Three specifications share the variables:                               *)
(*   Spec       setup and per-shard proving of a two-chip system           *)
(*   SpecSetup  chip construction over AIRs of every interaction kind      *)
(*   SpecTrace  trace generation of the precompile chips of one shard      *)
(***************************************************************************)
EXTENDS Integers, Sequences, FiniteSets, TLC

VARIABLES
    airs,        \* chip name -> the AIR it wraps
    chips,       \* chip name -> the Chip built by Chip::new, or NoChip
    views,       \* chip name -> the ChipView borrowed from the Chip, or NoChip
    record,      \* chip name -> the shard's events of that chip (ExecutionRecord)
    main,        \* chip name -> the main trace matrix, or NoTrace
    challenge,   \* the random elements <<beta, gamma>>, or NoChallenge
    perm,        \* chip name -> result of generate_permutation_trace, or NoPerm
    verdict,     \* outcome of the debug check of the shard
    evalLog,     \* chip name -> the constraints Chip::eval asserted, in order
    input,       \* the input ExecutionRecord of the precompile chips
    output,      \* the output ExecutionRecord (derived events)
    friSlots,    \* event index -> what the worker of that event returned
    friOrder,    \* the event indices in the order their workers finished
    traces,      \* precompile chip name -> the matrix generate_trace returned
    consumed,    \* the event list the consumer chip built its trace from
    pipe,        \* position in the static chip order of the shard
    passes,      \* chip name -> how often the Interaction Builder pass ran
    deps,        \* chip name -> generate_dependencies ran for the shard
    folds,       \* builder kind -> chip name -> constraints Chip::eval asserted
    vcol,        \* the owned VirtualPairCol under evaluation
    vpre,        \* the preprocessed row handed to apply
    vmain,       \* the main row handed to apply
    applied      \* what the apply calls made so far returned

vars == <<airs, chips, views, record, main, challenge, perm, verdict, evalLog,
          input, output, friSlots, friOrder, traces, consumed, pipe,
          passes, deps, folds, vcol, vpre, vmain, applied>>

logupVars == <<airs, chips, views, record, main, challenge, perm, verdict, evalLog,
               passes, deps, folds>>
columnVars == <<vcol, vpre, vmain, applied>>
traceVars == <<input, output, friSlots, friOrder, traces, consumed, pipe>>

NoChip == [built |-> FALSE]
NoTrace == <<>>
NoPerm == [outcome |-> "None", phi |-> <<>>]
NoChallenge == <<>>

(***************************************************************************)
(* Bounds of the model.                                                    *)
(***************************************************************************)
MaxEvents == 2
MaxRecvEvents == 1
MaxShaEvents == 2
MaxFriEvents == 3

(***************************************************************************)
(* The field.  F and EF are external prime/extension fields; the model     *)
(* computes in the prime field of order P.                                 *)
(***************************************************************************)
P == 7
Fld == 0 .. (P - 1)

FAdd(a, b) == (a + b) % P
FSub(a, b) == (a + P - b) % P
FMul(a, b) == (a * b) % P
FInv(a) == CHOOSE x \in Fld : (a * x) % P = 1
from_canonical(n) == n % P

RECURSIVE FPow(_, _)
FPow(a, n) == IF n = 0 THEN 1 ELSE FMul(a, FPow(a, n - 1))

(***************************************************************************)
(* Virtual columns (air/virtual_column.rs).                                *)
(***************************************************************************)
PairCol_get(column, preprocessed, mainRow) ==
    IF column.src = "Preprocessed" THEN preprocessed[column.idx + 1]
    ELSE mainRow[column.idx + 1]

RECURSIVE ApplyFrom(_, _, _, _, _)
ApplyFrom(weights, i, result, preprocessed, mainRow) ==
    IF i > Len(weights) THEN result
    ELSE ApplyFrom(weights, i + 1,
                   FAdd(result, FMul(PairCol_get(weights[i][1], preprocessed, mainRow),
                                     weights[i][2])),
                   preprocessed, mainRow)

\* VirtualColumn::apply for VirtualPairColView
VirtualPairColView_apply(v, preprocessed, mainRow) ==
    ApplyFrom(v.column_weights, 1, v.constant, preprocessed, mainRow)

\* mutant: the weighted columns are dropped, only the constant is returned
VirtualPairCol_apply_ConstantOnly(v, preprocessed, mainRow) == v.constant

\* VirtualColumn::apply for VirtualPairCol: delegates to the inherent apply
VirtualPairCol_apply(v, preprocessed, mainRow) ==
    ApplyFrom(v.column_weights, 1, v.constant, preprocessed, mainRow)

\* mutant: the view drops the constant of the column it borrows
VirtualPairColView_from_NoConstant(v) ==
    [column_weights |-> v.column_weights, constant |-> 0, view |-> TRUE]

\* From<&VirtualPairCol> for VirtualPairColView
VirtualPairColView_from(v) ==
    [column_weights |-> v.column_weights, constant |-> v.constant, view |-> TRUE]

MainCol(i) == [src |-> "Main", idx |-> i]
SingleMain(i) == [column_weights |-> << <<MainCol(i), 1>> >>, constant |-> 0]

(***************************************************************************)
(* Interactions (lookup/interaction.rs).                                   *)
(***************************************************************************)
Kinds == {"Memory", "Program", "Instruction", "Alu", "Byte", "Range", "Field"}

\* mutant: Range is given the discriminant of Byte
KindAsUsize_RangeAsByte(kind) ==
    CASE kind = "Memory" -> 1
      [] kind = "Program" -> 2
      [] kind = "Instruction" -> 3
      [] kind = "Alu" -> 4
      [] kind = "Byte" -> 5
      [] kind = "Range" -> 5
      [] kind = "Field" -> 7

\* `self.kind as usize`: the discriminants of enum InteractionKind
KindAsUsize(kind) ==
    CASE kind = "Memory" -> 1
      [] kind = "Program" -> 2
      [] kind = "Instruction" -> 3
      [] kind = "Alu" -> 4
      [] kind = "Byte" -> 5
      [] kind = "Range" -> 6
      [] kind = "Field" -> 7

Interaction_new(values, multiplicity, kind) ==
    [values |-> values, multiplicity |-> multiplicity, kind |-> kind]

InteractionView_new(values, multiplicity, kind) ==
    [values |-> values, multiplicity |-> multiplicity, kind |-> kind]

\* the inherent methods
Interaction_argument_index(i) == KindAsUsize(i.kind)
InteractionView_argument_index(i) == KindAsUsize(i.kind)
\* mutant: every kind is given the same argument index
Logup_Interaction_argument_index_Constant(i) == 0

\* the LogupInteraction trait methods
Logup_Interaction_argument_index(i) == KindAsUsize(i.kind)
Logup_InteractionView_argument_index(i) == KindAsUsize(i.kind)

\* trait dispatch: a view holds VirtualPairColView columns
IsViewCol(v) == "view" \in DOMAIN v
LogupInteraction_argument_index(i) ==
    IF IsViewCol(i.multiplicity) THEN Logup_InteractionView_argument_index(i)
    ELSE Logup_Interaction_argument_index(i)
VirtualColumn_apply(v, preprocessed, mainRow) ==
    IF IsViewCol(v) THEN VirtualPairColView_apply(v, preprocessed, mainRow)
    ELSE VirtualPairCol_apply(v, preprocessed, mainRow)

(***************************************************************************)
(* AIRs and the Interaction Builder pass.  An AIR's eval emits its         *)
(* interactions in a fixed order through builder.send / builder.receive.   *)
(***************************************************************************)
InteractionBuilder_new(width) == [width |-> width, sends |-> <<>>, receives |-> <<>>]

InteractionBuilder_send(builder, interaction) ==
    [builder EXCEPT !.sends = Append(@, interaction)]

InteractionBuilder_receive(builder, interaction) ==
    [builder EXCEPT !.receives = Append(@, interaction)]

RECURSIVE Air_eval_interactions(_, _, _)
Air_eval_interactions(air, i, builder) ==
    IF i > Len(air.emissions) THEN builder
    ELSE LET e == air.emissions[i]
             it == Interaction_new(e.values, e.multiplicity, e.kind)
         IN Air_eval_interactions(air, i + 1,
                IF e.dir = "send" THEN InteractionBuilder_send(builder, it)
                ELSE InteractionBuilder_receive(builder, it))

InteractionBuilder_interactions(builder) == <<builder.sends, builder.receives>>

\* mutant: the bit length of n instead of the rounded-up logarithm
RECURSIVE log2_ceil_usize_BitLength(_)
log2_ceil_usize_BitLength(n) == IF n = 0 THEN 0 ELSE 1 + log2_ceil_usize_BitLength(n \div 2)

RECURSIVE log2_ceil_usize(_)
log2_ceil_usize(n) == IF n <= 1 THEN 0 ELSE 1 + log2_ceil_usize((n + 1) \div 2)

max_constraint_degree == 3

\* mutant: the pair returned by builder.interactions() is taken in the wrong order
Chip_new_Swapped(air) ==
    LET builder == Air_eval_interactions(air, 1, InteractionBuilder_new(air.width))
        sr == InteractionBuilder_interactions(builder)
    IN [air |-> air, sends |-> sr[2], receives |-> sr[1],
        log_quotient_degree |-> log2_ceil_usize(max_constraint_degree - 1)]

\* Chip::new
Chip_new(air) ==
    LET builder == Air_eval_interactions(air, 1, InteractionBuilder_new(air.width))
        sr == InteractionBuilder_interactions(builder)
    IN [air |-> air, sends |-> sr[1], receives |-> sr[2],
        log_quotient_degree |-> log2_ceil_usize(max_constraint_degree - 1)]

Chip_sends(chip) == chip.sends
Chip_receives(chip) == chip.receives
Chip_log_quotient_degree(chip) == chip.log_quotient_degree

(***************************************************************************)
(* Trace matrices and padding.                                             *)
(***************************************************************************)
RECURSIVE PowerOfTwoFrom(_, _)
PowerOfTwoFrom(p, n) == IF p >= n THEN p ELSE PowerOfTwoFrom(2 * p, n)

\* usize::next_power_of_two
next_power_of_two(n) == PowerOfTwoFrom(1, n)

\* mutant: the padding row is filled with ones
ZeroRow_Ones(width) == [i \in 1 .. width |-> 1]

\* the row the padding closure of a trace generator returns: [F::zero(); NUM_COLS]
ZeroRow(width) == [i \in 1 .. width |-> 0]

\* Vec::resize(n, row) of a vector no longer than n
Resize(rows, n, row) == rows \o [k \in 1 .. (n - Len(rows)) |-> row]

\* utils::pad_rows: pad to a power of two, at least 4
pad_rows(rows, row) ==
    LET nb_rows == Len(rows)
        p2 == next_power_of_two(nb_rows)
        padded_nb_rows == IF p2 = 2 \/ p2 = 1 THEN 4 ELSE p2
    IN Resize(rows, padded_nb_rows, row)

(***************************************************************************)
(* The two-chip system: chip A and chip B, each with one interaction over  *)
(* the columns (value0, value1, multiplicity) of its main trace.           *)
(***************************************************************************)
ChipNames == {"A", "B"}
ChipOrder == <<"A", "B">>
ToyWidth == 3

ToyAir(name, dir, kind) ==
    [name |-> name, width |-> ToyWidth,
     emissions |-> << [dir |-> dir, kind |-> kind,
                       values |-> <<SingleMain(0), SingleMain(1)>>,
                       multiplicity |-> SingleMain(2)] >>]

\* an event of a chip: <<value0, value1, multiplicity>>
EventSet == {<<3, 5, 1>>, <<3, 5, 2>>, <<5, 3, 1>>}

RECURSIVE EventRows(_, _)
EventRows(events, i) ==
    IF i > Len(events) THEN <<>>
    ELSE << <<from_canonical(events[i][1]), from_canonical(events[i][2]),
              from_canonical(events[i][3])>> >> \o EventRows(events, i + 1)

\* MachineAir::generate_trace of the wrapped AIR: one row per event, then padding
Air_generate_trace(air, events) == pad_rows(EventRows(events, 1), ZeroRow(air.width))

\* MachineAir::generate_trace for Chip: delegates to the AIR
Chip_generate_trace(chip, events) == Air_generate_trace(chip.air, events)

\* RiscvAir::included: the chip has events in the shard
Air_included(air, shard) == shard[air.name] # <<>>

\* Chip::included
Chip_included(chip, shard) == Air_included(chip.air, shard)

(***************************************************************************)
(* The logup permutation engine.                                           *)
(***************************************************************************)
RECURSIVE RlcFrom(_, _, _, _, _)
RlcFrom(values, i, preprocessed, mainRow, gamma) ==
    IF i > Len(values) THEN 0
    ELSE FAdd(FMul(VirtualColumn_apply(values[i], preprocessed, mainRow), FPow(gamma, i)),
              RlcFrom(values, i + 1, preprocessed, mainRow, gamma))

\* the fingerprint of an interaction on a row: the random linear combination
\* of (argument_index, values) with the powers of gamma
Fingerprint(interaction, preprocessed, mainRow, gamma) ==
    FAdd(from_canonical(LogupInteraction_argument_index(interaction)),
         RlcFrom(interaction.values, 1, preprocessed, mainRow, gamma))

Multiplicity(interaction, preprocessed, mainRow) ==
    VirtualColumn_apply(interaction.multiplicity, preprocessed, mainRow)

\* an active interaction whose fingerprint equals the challenge
Collides(interaction, preprocessed, mainRow, random_elements) ==
    /\ Multiplicity(interaction, preprocessed, mainRow) # 0
    /\ Fingerprint(interaction, preprocessed, mainRow, random_elements[2])
         = random_elements[1]

\* multiplicity / (beta - fingerprint) of an active interaction, else zero
Reciprocal(interaction, preprocessed, mainRow, random_elements) ==
    LET mult == Multiplicity(interaction, preprocessed, mainRow)
        fp == Fingerprint(interaction, preprocessed, mainRow, random_elements[2])
    IN IF mult = 0 THEN 0
       ELSE FMul(mult, FInv(FSub(random_elements[1], fp)))

RECURSIVE SumReciprocals(_, _, _, _, _)
SumReciprocals(interactions, i, preprocessed, mainRow, random_elements) ==
    IF i > Len(interactions) THEN 0
    ELSE FAdd(Reciprocal(interactions[i], preprocessed, mainRow, random_elements),
              SumReciprocals(interactions, i + 1, preprocessed, mainRow, random_elements))

\* the contribution of one row: sends count positive, receives negative
RowContribution(sends, receives, preprocessed, mainRow, random_elements) ==
    FSub(SumReciprocals(sends, 1, preprocessed, mainRow, random_elements),
         SumReciprocals(receives, 1, preprocessed, mainRow, random_elements))

RECURSIVE RunningSum(_, _, _, _, _, _, _)
RunningSum(sends, receives, preprocessed, mainRows, random_elements, n, acc) ==
    IF n > Len(mainRows) THEN <<>>
    ELSE LET phi == FAdd(acc, RowContribution(sends, receives, preprocessed,
                                              mainRows[n], random_elements))
         IN <<phi>> \o RunningSum(sends, receives, preprocessed, mainRows,
                                  random_elements, n + 1, phi)

\* stark::generate_permutation_trace
generate_permutation_trace(sends, receives, preprocessed, mainRows, random_elements) ==
    LET all == sends \o receives
    IN IF \E n \in 1 .. Len(mainRows), j \in 1 .. Len(all) :
              Collides(all[j], preprocessed, mainRows[n], random_elements)
       THEN [outcome |-> "SoundnessFailure", phi |-> <<>>]
       ELSE [outcome |-> "Ok",
             phi |-> RunningSum(sends, receives, preprocessed, mainRows,
                                random_elements, 1, 0)]

\* mutant: the receives are not handed to the engine
Chip_generate_permutation_trace_NoReceives(chip, preprocessed, mainRows, random_elements) ==
    generate_permutation_trace(chip.sends, <<>>, preprocessed, mainRows, random_elements)

\* mutant: the sends are not handed to the engine
Chip_generate_permutation_trace_NoSends(chip, preprocessed, mainRows, random_elements) ==
    generate_permutation_trace(<<>>, chip.receives, preprocessed, mainRows, random_elements)

\* Chip::generate_permutation_trace
Chip_generate_permutation_trace(chip, preprocessed, mainRows, random_elements) ==
    generate_permutation_trace(chip.sends, chip.receives, preprocessed, mainRows,
                               random_elements)

(***************************************************************************)
(* Constraint evaluation.  A builder is one of the four builder semantics; *)
(* it logs the constraint groups asserted on it and, for the debug         *)
(* builder, whether an assertion failed on the traces it holds.            *)
(***************************************************************************)
BuilderKinds == {"symbolic", "prover", "verifier", "debug"}

Builder_new(kind, mainRows, permutation, random_elements) ==
    [kind |-> kind, main |-> mainRows, perm |-> permutation,
     random_elements |-> random_elements, log |-> <<>>, failed |-> FALSE]

\* Air::eval of the wrapped AIR: its local constraints (every row has the
\* declared width)
Air_eval(air, builder) ==
    [builder EXCEPT
        !.log = Append(@, <<"air", air.name>>),
        !.failed = @ \/ (builder.kind = "debug"
                         /\ \E n \in 1 .. Len(builder.main) :
                               Len(builder.main[n]) # air.width)]

\* stark::eval_permutation_constraints: the running sum starts at the first
\* row's contribution and each transition adds the next row's contribution
eval_permutation_constraints(sends, receives, builder) ==
    LET phi == builder.perm
        contribution(n) == RowContribution(sends, receives, <<>>, builder.main[n],
                                           builder.random_elements)
        prev(n) == IF n = 1 THEN 0 ELSE phi[n - 1]
    IN [builder EXCEPT
           !.log = Append(@, <<"permutation", Len(sends), Len(receives)>>),
           !.failed = @ \/ (builder.kind = "debug"
                            /\ (\/ Len(phi) # Len(builder.main)
                                \/ \E n \in 1 .. Len(phi) :
                                      phi[n] # FAdd(prev(n), contribution(n))))]

\* mutant: the permutation constraints are asserted before the AIR's own
Chip_eval_PermutationFirst(chip, builder) ==
    Air_eval(chip.air, eval_permutation_constraints(chip.sends, chip.receives, builder))

\* Air::eval for Chip: the AIR's constraints, then the permutation constraints
Chip_eval(chip, builder) ==
    eval_permutation_constraints(chip.sends, chip.receives, Air_eval(chip.air, builder))

(***************************************************************************)
(* Setup and per-shard proving of the two-chip system.                     *)
(***************************************************************************)
Included == {c \in ChipNames : chips[c] # NoChip /\ Chip_included(chips[c], record)}

Before(c) == {ChipOrder[i] : i \in {j \in 1 .. Len(ChipOrder) :
                                      \E k \in (j + 1) .. Len(ChipOrder) : ChipOrder[k] = c}}

AllBuilt == \A c \in ChipNames : chips[c] # NoChip
DepsDone == \A c \in Included : deps[c]
TracesDone == \A c \in Included : main[c] # NoTrace
PermsDone == \A c \in Included : perm[c] # NoPerm

LastOf(phi) == IF phi = <<>> THEN 0 ELSE phi[Len(phi)]

RECURSIVE SumOver(_, _)
SumOver(f, S) ==
    IF S = {} THEN 0
    ELSE LET c == CHOOSE x \in S : TRUE IN FAdd(f[c], SumOver(f, S \ {c}))

\* the sum over the chips of the proof of their final accumulated values
CumulativeSum(permutations, included) ==
    SumOver([c \in included |-> LastOf(permutations[c].phi)], included)

NoColumn == [column_weights |-> <<>>, constant |-> 0]
NoFolds == [k \in {} |-> <<>>]

IdleColumn ==
    /\ vcol = NoColumn
    /\ vpre = <<>>
    /\ vmain = <<>>
    /\ applied = [k \in {} |-> 0]

IdleTrace ==
    /\ input = [sha_extend_events |-> <<>>, fri_fold_events |-> <<>>]
    /\ output = [field_events |-> <<>>, lookup_events |-> <<>>]
    /\ friSlots = <<>>
    /\ friOrder = <<>>
    /\ traces = [c \in {"ShaExtend", "FriFold", "FieldLtu"} |-> NoTrace]
    /\ consumed = [read |-> FALSE, events |-> <<>>]
    /\ pipe = 0
    /\ IdleColumn

ToyKinds == {"Memory", "Program"}

Init ==
    /\ airs \in {[c \in ChipNames |-> IF c = "A" THEN ToyAir("A", "send", ka)
                                      ELSE ToyAir("B", "receive", kb)] :
                    ka \in {"Memory"}, kb \in ToyKinds}
    /\ chips = [c \in ChipNames |-> NoChip]
    /\ views = [c \in ChipNames |-> NoChip]
    /\ record = [c \in ChipNames |-> <<>>]
    /\ main = [c \in ChipNames |-> NoTrace]
    /\ challenge = NoChallenge
    /\ perm = [c \in ChipNames |-> NoPerm]
    /\ verdict = "none"
    /\ evalLog = [c \in ChipNames |-> <<>>]
    /\ passes = [c \in ChipNames |-> 0]
    /\ deps = [c \in ChipNames |-> FALSE]
    /\ folds = NoFolds
    /\ IdleTrace

\* setup: Chip::new(air)
ChipNew(c) ==
    /\ chips[c] = NoChip
    /\ chips' = [chips EXCEPT ![c] = Chip_new(airs[c])]
    /\ passes' = [passes EXCEPT ![c] = @ + 1]
    /\ UNCHANGED <<deps, folds>>
    /\ UNCHANGED <<airs, views, record, main, challenge, perm, verdict, evalLog>>
    /\ UNCHANGED traceVars
    /\ UNCHANGED columnVars

\* the runtime records an event of chip c in the shard's execution record
RecordEvent(c, ev) ==
    /\ AllBuilt
    /\ \A d \in ChipNames : main[d] = NoTrace /\ ~deps[d]
    /\ challenge = NoChallenge
    /\ verdict = "none"
    /\ Len(record[c]) < (IF c = "B" THEN MaxRecvEvents ELSE MaxEvents)
    /\ record' = [record EXCEPT ![c] = Append(@, ev)]
    /\ UNCHANGED <<passes, deps, folds>>
    /\ UNCHANGED <<airs, chips, views, main, challenge, perm, verdict, evalLog>>
    /\ UNCHANGED traceVars
    /\ UNCHANGED columnVars

\* chip.generate_dependencies(record), for the chips included in the shard, in
\* order and before any trace is generated
GenerateDependencies(c) ==
    /\ AllBuilt
    /\ c \in Included
    /\ ~deps[c]
    /\ \A d \in Before(c) \cap Included : deps[d]
    /\ \A d \in ChipNames : main[d] = NoTrace
    /\ verdict = "none"
    /\ deps' = [deps EXCEPT ![c] = TRUE]
    /\ UNCHANGED <<passes, folds>>
    /\ UNCHANGED <<airs, chips, views, record, main, challenge, perm, verdict, evalLog>>
    /\ UNCHANGED traceVars
    /\ UNCHANGED columnVars

\* mutant: generate_trace builds the chip anew, running the builder pass again
GenerateTrace_Rebuilds(c) ==
    /\ AllBuilt
    /\ c \in Included
    /\ DepsDone
    /\ main[c] = NoTrace
    /\ \A d \in Before(c) \cap Included : main[d] # NoTrace
    /\ main' = [main EXCEPT ![c] = Chip_generate_trace(chips[c], record[c])]
    /\ chips' = [chips EXCEPT ![c] = Chip_new(airs[c])]
    /\ passes' = [passes EXCEPT ![c] = @ + 1]
    /\ UNCHANGED <<deps, folds>>
    /\ UNCHANGED <<airs, views, record, challenge, perm, verdict, evalLog>>
    /\ UNCHANGED traceVars
    /\ UNCHANGED columnVars

\* chip.generate_trace(record), for the chips included in the shard, in order
GenerateTrace(c) ==
    /\ AllBuilt
    /\ c \in Included
    /\ DepsDone
    /\ main[c] = NoTrace
    /\ \A d \in Before(c) \cap Included : main[d] # NoTrace
    /\ main' = [main EXCEPT ![c] = Chip_generate_trace(chips[c], record[c])]
    /\ UNCHANGED <<passes, deps, folds>>
    /\ UNCHANGED <<airs, chips, views, record, challenge, perm, verdict, evalLog>>
    /\ UNCHANGED traceVars
    /\ UNCHANGED columnVars

\* the challenger samples the random elements
SampleChallenge(beta, gamma) ==
    /\ AllBuilt
    /\ Included # {}
    /\ TracesDone
    /\ challenge = NoChallenge
    /\ verdict = "none"
    /\ challenge' = <<beta, gamma>>
    /\ UNCHANGED <<passes, deps, folds>>
    /\ UNCHANGED <<airs, chips, views, record, main, perm, verdict, evalLog>>
    /\ UNCHANGED traceVars
    /\ UNCHANGED columnVars

\* chip.generate_permutation_trace(None, main, random_elements); a collision
\* of the challenge with a fingerprint ends the proof of the shard
GeneratePermutationTrace(c) ==
    /\ challenge # NoChallenge
    /\ verdict = "none"
    /\ c \in Included
    /\ perm[c] = NoPerm
    /\ \A d \in Before(c) \cap Included : perm[d] # NoPerm
    /\ LET res == Chip_generate_permutation_trace(chips[c], <<>>, main[c], challenge)
       IN /\ perm' = [perm EXCEPT ![c] = res]
          /\ verdict' = IF res.outcome = "SoundnessFailure" THEN "fatal" ELSE verdict
    /\ UNCHANGED <<passes, deps, folds>>
    /\ UNCHANGED <<airs, chips, views, record, main, challenge, evalLog>>
    /\ UNCHANGED traceVars
    /\ UNCHANGED columnVars

\* the builders under which the chips' constraints are evaluated before the
\* debug check, in the order of their use
FoldOrder == <<"symbolic", "prover", "verifier">>

\* Chip::eval of every chip of the shard under the builder of the given kind
Evaluate(kind) ==
    /\ challenge # NoChallenge
    /\ verdict = "none"
    /\ PermsDone
    /\ Cardinality(DOMAIN folds) < Len(FoldOrder)
    /\ kind = FoldOrder[Cardinality(DOMAIN folds) + 1]
    /\ LET built == [c \in Included |->
                       Chip_eval(chips[c],
                                 Builder_new(kind, main[c], perm[c].phi, challenge))]
       IN folds' = [k \in DOMAIN folds \cup {kind} |->
                      IF k = kind THEN [c \in Included |-> built[c].log] ELSE folds[k]]
    /\ UNCHANGED <<passes, deps>>
    /\ UNCHANGED <<airs, chips, views, record, main, challenge, perm, verdict, evalLog>>
    /\ UNCHANGED traceVars
    /\ UNCHANGED columnVars

\* the debug check of the shard: Chip::eval of every chip under the debug
\* builder, then the cumulative sums of all chips must add up to zero
DebugCheck ==
    /\ challenge # NoChallenge
    /\ verdict = "none"
    /\ PermsDone
    /\ Cardinality(DOMAIN folds) = Len(FoldOrder)
    /\ LET built == [c \in Included |->
                       Chip_eval(chips[c],
                                 Builder_new("debug", main[c], perm[c].phi, challenge))]
       IN /\ evalLog' = [c \in ChipNames |-> IF c \in Included THEN built[c].log ELSE <<>>]
          /\ verdict' = IF \/ \E c \in Included : built[c].failed
                           \/ CumulativeSum(perm, Included) # 0
                        THEN "reject" ELSE "accept"
    /\ UNCHANGED <<passes, deps, folds>>
    /\ UNCHANGED <<airs, chips, views, record, main, challenge, perm>>
    /\ UNCHANGED traceVars
    /\ UNCHANGED columnVars

\* the shard is finished (or its challenge must be sampled again): the record
\* and the traces are discarded, the chips are kept for the next shard
NextShard ==
    /\ verdict # "none"
    /\ record' = [c \in ChipNames |-> IF verdict = "fatal" THEN record[c] ELSE <<>>]
    /\ main' = [c \in ChipNames |-> NoTrace]
    /\ challenge' = NoChallenge
    /\ perm' = [c \in ChipNames |-> NoPerm]
    /\ verdict' = "none"
    /\ evalLog' = [c \in ChipNames |-> <<>>]
    /\ deps' = [c \in ChipNames |-> FALSE]
    /\ folds' = NoFolds
    /\ UNCHANGED passes
    /\ UNCHANGED <<airs, chips, views>>
    /\ UNCHANGED traceVars
    /\ UNCHANGED columnVars

Next ==
    \/ \E c \in ChipNames : ChipNew(c)
    \/ \E c \in ChipNames, ev \in EventSet : RecordEvent(c, ev)
    \/ \E c \in ChipNames : GenerateDependencies(c)
    \/ \E c \in ChipNames : GenerateTrace(c)
    \/ \E beta \in Fld, gamma \in Fld : SampleChallenge(beta, gamma)
    \/ \E c \in ChipNames : GeneratePermutationTrace(c)
    \/ \E kind \in BuilderKinds : Evaluate(kind)
    \/ DebugCheck
    \/ NextShard

Spec == Init /\ [][Next]_vars

(***************************************************************************)
(* Properties of the two-chip system (under Spec).                         *)
(***************************************************************************)
\* what the shard's record says, read off the events without the engine
KindOf(c) == airs[c].emissions[1].kind
IsSender(c) == airs[c].emissions[1].dir = "send"
Tuples == {<<e[1], e[2]>> : e \in EventSet}

RECURSIVE WeightFrom(_, _, _)
WeightFrom(events, i, t) ==
    IF i > Len(events) THEN 0
    ELSE (IF <<events[i][1], events[i][2]>> = t THEN events[i][3] ELSE 0)
         + WeightFrom(events, i + 1, t)

\* the multiplicity with which tuple t is sent (dir = "send") or received under kind k
Weight(dir, k, t) ==
    LET S == {c \in ChipNames : KindOf(c) = k /\ airs[c].emissions[1].dir = dir}
        w == [c \in S |-> WeightFrom(record[c], 1, t)]
        RECURSIVE Total(_)
        Total(T) == IF T = {} THEN 0
                    ELSE LET c == CHOOSE x \in T : TRUE IN w[c] + Total(T \ {c})
    IN Total(S)

\* sends and receives form the same weighted multiset, for every kind
Balanced == \A k \in Kinds, t \in Tuples : Weight("send", k, t) = Weight("receive", k, t)

\* the fingerprint and the signed contribution of a row <<value0, value1, multiplicity>>
\* of chip c, written out
RowFingerprint(c, row) ==
    (KindAsUsize(KindOf(c)) + row[1] * challenge[2] + row[2] * challenge[2] * challenge[2]) % P

RowCollides(c, row) == row[3] # 0 /\ RowFingerprint(c, row) = challenge[1]

Signed(c, x) == IF IsSender(c) THEN x % P ELSE (P - (x % P)) % P

ExpectedContribution(c, row) ==
    IF row[3] = 0 THEN 0
    ELSE Signed(c, row[3] * FInv((challenge[1] + P - RowFingerprint(c, row)) % P))

AllOk == /\ challenge # NoChallenge
         /\ Included # {}
         /\ \A c \in Included : perm[c].outcome = "Ok"

IsPrefixSum(c) ==
    /\ Len(perm[c].phi) = Len(main[c])
    /\ \A n \in 1 .. Len(main[c]) :
          perm[c].phi[n] = ((IF n = 1 THEN 0 ELSE perm[c].phi[n - 1])
                            + ExpectedContribution(c, main[c][n])) % P

\* C1: with a challenge that collides with no fingerprint, every running sum
\* starts from zero and is the prefix sum of the rows' contributions
\* (+multiplicity/(beta - fingerprint) for a send, - for a receive), and when
\* the sends and receives form the same weighted multiset for every kind the
\* final values of all chips add up to zero.
C1_BalancedSumsToZero ==
    /\ \A c \in Included : perm[c].outcome = "Ok" => IsPrefixSum(c)
    /\ (AllOk /\ Balanced) => CumulativeSum(perm, Included) = 0

C1_Witness ==
    /\ AllOk
    /\ KindOf("A") = "Memory" /\ KindOf("B") = "Memory"
    /\ record["A"] = << <<3, 5, 1>>, <<3, 5, 1>> >>
    /\ record["B"] = << <<3, 5, 2>> >>
    /\ verdict = "accept"

\* all events of the shard carry the one tuple t
SingleTuple(t) ==
    \A c \in ChipNames : \A i \in 1 .. Len(record[c]) :
        <<record[c][i][1], record[c][i][2]>> = t

\* the (kind, tuple) entries sent and received with different multiplicities
Mismatched ==
    {kt \in Kinds \X Tuples :
        (P * P + Weight("send", kt[1], kt[2]) - Weight("receive", kt[1], kt[2])) % P # 0}

C3_KindsNeverCancel ==
    \A t \in Tuples :
        (/\ AllOk
         /\ KindOf("A") # KindOf("B")
         /\ SingleTuple(t)
         /\ Weight("send", KindOf("A"), t) = Weight("receive", KindOf("B"), t)
         /\ Weight("send", KindOf("A"), t) % P # 0)
        => /\ CumulativeSum(perm, Included) # 0
           /\ verdict # "accept"
           /\ (evalLog # [c \in ChipNames |-> <<>>] => verdict = "reject")

C3_Witness ==
    /\ AllOk
    /\ KindOf("A") = "Memory" /\ KindOf("B") = "Program"
    /\ record["A"] = << <<3, 5, 2>> >>
    /\ record["B"] = << <<3, 5, 2>> >>
    /\ verdict = "reject"

\* C4: the rows after a chip's real rows are padding rows; the running sum
\* after every one of them equals the running sum after the last real row, so
\* the final value is the same however many padding rows were appended.
C4_PaddingKeepsSum ==
    \A c \in Included :
        perm[c].outcome = "Ok" =>
            LET real == Len(record[c])
                atReal == IF real = 0 THEN 0 ELSE perm[c].phi[real]
            IN /\ real <= Len(perm[c].phi)
               /\ \A n \in (real + 1) .. Len(perm[c].phi) : perm[c].phi[n] = atReal
               /\ LastOf(perm[c].phi) = atReal

C4_Witness ==
    \E c \in Included :
        /\ perm[c].outcome = "Ok"
        /\ Len(record[c]) = 1
        /\ Len(perm[c].phi) = 4
        /\ perm[c].phi[1] # 0
        /\ perm[c].phi[4] = perm[c].phi[1]

Frozen(chip) ==
    <<Chip_sends(chip), Chip_receives(chip), Chip_log_quotient_degree(chip)>>

\* C12: once a chip is built, no step (generate_dependencies, generate_trace,
\* generate_permutation_trace, included, eval, the change to the next shard)
\* changes its sends, receives or log_quotient_degree, and the Interaction
\* Builder pass, which ran once when the chip was built, does not run again.
C12_ChipIsImmutable ==
    /\ [][\A c \in ChipNames :
             chips[c] # NoChip =>
                /\ chips'[c] # NoChip
                /\ Frozen(chips'[c]) = Frozen(chips[c])
                /\ passes'[c] = passes[c]]_vars
    /\ [](\A c \in ChipNames : passes[c] = IF chips[c] = NoChip THEN 0 ELSE 1)

C12_Witness ==
    /\ verdict = "accept"
    /\ \A c \in ChipNames :
          /\ c \in Included
          /\ deps[c]
          /\ Len(main[c]) = 4
          /\ perm[c].outcome = "Ok"
          /\ evalLog[c] # <<>>
          /\ passes[c] = 1
          /\ Frozen(chips[c]) = Frozen(Chip_new(airs[c]))

\* the constraints one call of Chip::eval asserts for chip c, in order
ExpectedConstraints(c) ==
    << <<"air", airs[c].name>>,
       <<"permutation", Len(Chip_sends(chips[c])), Len(Chip_receives(chips[c]))>> >>

\* C14: under each of the four builders Chip::eval asserts the wrapped AIR's
\* constraints first and the permutation constraints over the chip's frozen
\* sends and receives second, each once, so all builders see one sequence.
C14_EvalSameUnderAllBuilders ==
    /\ \A kind \in DOMAIN folds :
          /\ kind \in BuilderKinds
          /\ DOMAIN folds[kind] = Included
          /\ \A c \in Included : folds[kind][c] = ExpectedConstraints(c)
    /\ verdict \in {"accept", "reject"} =>
          \A c \in Included :
             /\ evalLog[c] = ExpectedConstraints(c)
             /\ \A kind \in DOMAIN folds : folds[kind][c] = evalLog[c]

C14_Witness ==
    /\ verdict = "accept"
    /\ Included = ChipNames
    /\ DOMAIN folds \cup {"debug"} = BuilderKinds
    /\ \A c \in ChipNames : Len(evalLog[c]) = 2 /\ folds["prover"][c] = evalLog[c]

(***************************************************************************)
(* SpecSetup: chip construction over AIRs of every interaction kind, and   *)
(* the borrowed views of the chips.                                        *)
(***************************************************************************)
Emission(dir, kind) ==
    [dir |-> dir, kind |-> kind, values |-> <<SingleMain(0), SingleMain(1)>>,
     multiplicity |-> SingleMain(2)]

SetupAirs ==
    {[name |-> "Single", width |-> ToyWidth, emissions |-> <<Emission(d, k)>>] :
        d \in {"send", "receive"}, k \in Kinds}
    \cup {[name |-> "Mixed", width |-> ToyWidth,
           emissions |-> <<Emission("send", k), Emission("receive", "Byte"),
                           Emission("send", "Range"), Emission("receive", k)>>] :
            k \in {"Memory", "Alu", "Field"}}

RECURSIVE ViewsOf(_, _)
ViewsOf(interactions, i) ==
    IF i > Len(interactions) THEN <<>>
    ELSE LET it == interactions[i]
             cols == [j \in 1 .. Len(it.values) |-> VirtualPairColView_from(it.values[j])]
         IN <<InteractionView_new(cols, VirtualPairColView_from(it.multiplicity), it.kind)>>
            \o ViewsOf(interactions, i + 1)

\* a ChipView over the interactions the Chip owns
ChipView_of(chip) ==
    [air |-> chip.air, sends |-> ViewsOf(chip.sends, 1),
     receives |-> ViewsOf(chip.receives, 1),
     log_quotient_degree |-> chip.log_quotient_degree]

InitSetup ==
    /\ airs \in [ChipNames -> SetupAirs]
    /\ chips = [c \in ChipNames |-> NoChip]
    /\ views = [c \in ChipNames |-> NoChip]
    /\ record = [c \in ChipNames |-> <<>>]
    /\ main = [c \in ChipNames |-> NoTrace]
    /\ challenge = NoChallenge
    /\ perm = [c \in ChipNames |-> NoPerm]
    /\ verdict = "none"
    /\ evalLog = [c \in ChipNames |-> <<>>]
    /\ passes = [c \in ChipNames |-> 0]
    /\ deps = [c \in ChipNames |-> FALSE]
    /\ folds = NoFolds
    /\ IdleTrace

BorrowView(c) ==
    /\ chips[c] # NoChip
    /\ views[c] = NoChip
    /\ views' = [views EXCEPT ![c] = ChipView_of(chips[c])]
    /\ UNCHANGED <<passes, deps, folds>>
    /\ UNCHANGED <<airs, chips, record, main, challenge, perm, verdict, evalLog>>
    /\ UNCHANGED traceVars
    /\ UNCHANGED columnVars

NextSetup ==
    \/ \E c \in ChipNames : ChipNew(c)
    \/ \E c \in ChipNames : BorrowView(c)

SpecSetup == InitSetup /\ [][NextSetup]_vars

SeqRange(q) == {q[i] : i \in 1 .. Len(q)}

\* every interaction of a built chip, and every interaction view of a borrowed view
OwnedInteractions ==
    UNION {SeqRange(chips[c].sends) \cup SeqRange(chips[c].receives) :
              c \in {d \in ChipNames : chips[d] # NoChip}}
ViewInteractions ==
    UNION {SeqRange(views[c].sends) \cup SeqRange(views[c].receives) :
              c \in {d \in ChipNames : views[d] # NoChip}}

\* the indices the inherent and the trait method return for an interaction
IndicesOf(i) ==
    IF i \in ViewInteractions
    THEN {InteractionView_argument_index(i), Logup_InteractionView_argument_index(i)}
    ELSE {Interaction_argument_index(i), Logup_Interaction_argument_index(i)}

\* C6: two interactions (owned or views, through the inherent or the trait
\* method) have the same argument index if and only if they have the same
\* kind; the seven kinds have seven different indices.
C6_ArgumentIndexInjective ==
    /\ \A i, j \in OwnedInteractions \cup ViewInteractions :
          \A x \in IndicesOf(i), y \in IndicesOf(j) : (x = y) <=> (i.kind = j.kind)
    /\ \A i \in OwnedInteractions \cup ViewInteractions :
          /\ i.kind \in Kinds
          /\ LogupInteraction_argument_index(i) \in IndicesOf(i)
          /\ Cardinality(IndicesOf(i)) = 1

C6_Witness ==
    /\ \E i \in OwnedInteractions, j \in ViewInteractions : i.kind = "Range" /\ j.kind = "Byte"
    /\ \E i \in OwnedInteractions, j \in ViewInteractions : i.kind = "Field" /\ j.kind = "Field"
    /\ \A c \in ChipNames : views[c] # NoChip

RECURSIVE Declared(_, _, _)
Declared(air, dir, i) ==
    IF i > Len(air.emissions) THEN <<>>
    ELSE (IF air.emissions[i].dir = dir
          THEN <<[values |-> air.emissions[i].values,
                  multiplicity |-> air.emissions[i].multiplicity,
                  kind |-> air.emissions[i].kind]>>
          ELSE <<>>) \o Declared(air, dir, i + 1)

\* C10: a built chip's sends are the AIR's declared sends in emission order and
\* its receives the declared receives in emission order, so two chips built
\* from the same AIR hold the same two lists.
C10_BuilderDeterministic ==
    /\ \A c \in ChipNames :
          chips[c] # NoChip =>
             /\ chips[c].sends = Declared(airs[c], "send", 1)
             /\ chips[c].receives = Declared(airs[c], "receive", 1)
             /\ Len(chips[c].sends) + Len(chips[c].receives) = Len(airs[c].emissions)
    /\ \A c, d \in ChipNames :
          (chips[c] # NoChip /\ chips[d] # NoChip /\ airs[c] = airs[d]) =>
             (chips[c].sends = chips[d].sends /\ chips[c].receives = chips[d].receives)

C10_Witness ==
    /\ chips["A"] # NoChip /\ chips["B"] # NoChip
    /\ airs["A"] = airs["B"]
    /\ Len(chips["A"].sends) = 2 /\ Len(chips["B"].receives) = 2
    /\ chips["A"].sends[1].kind = "Alu" /\ chips["A"].sends[2].kind = "Range"

\* the least k with 2^k >= n
CeilLog2(n) == CHOOSE k \in 0 .. n : 2 ^ k >= n /\ \A j \in 0 .. (k - 1) : 2 ^ j < n

PrecompileChips == {"ShaExtend", "FriFold", "FieldLtu"}

\* mutant: the consumer chip is put before its producers
PrecompileOrder_ConsumerFirst == <<"FieldLtu", "ShaExtend", "FriFold">>

\* the static order of the chips of a shard: producers before the consumer
PrecompileOrder == <<"ShaExtend", "FriFold", "FieldLtu">>

ChipAt(i) == IF i \in 1 .. Len(PrecompileOrder) THEN PrecompileOrder[i] ELSE "none"

FieldEvent(chip, event, row, col, idx) ==
    [chip |-> chip, event |-> event, row |-> row, col |-> col, idx |-> idx]

\* a memory column's populate(record, new_field_events) pushes one field event
MemoryCols_populate(new_field_events, ev) == Append(new_field_events, ev)

\* ExecutionRecord::add_field_events
add_field_events(out, new_field_events) ==
    [out EXCEPT !.field_events = @ \o new_field_events]


(*************************** ShaExtend ***********************************)
ShaRowsPerEvent == 48

ShaExtendCols_zero == [is_real |-> 0, flags |-> 0, shard |-> 0, clk |-> 0, w_ptr |-> 0]

\* ShaExtendCols::populate_flags(i)
populate_flags(cols, i) == [cols EXCEPT !.flags = i]

ShaMemoryCols == <<"w_i_minus_15", "w_i_minus_2", "w_i_minus_16", "w_i_minus_7", "w_i">>
ShaOperations == <<"s0", "s1", "s2">>

\* the row the inner loop body (lines 26-58) pushes for event i (from 0), j
ShaExtendRow(event, j) ==
    [populate_flags(ShaExtendCols_zero, j) EXCEPT
        !.shard = from_canonical(event.shard),
        !.clk = from_canonical(event.clk),
        !.w_ptr = from_canonical(event.w_ptr),
        !.is_real = 1]

\* the loops of lines 23-60 over all events i and all j < 48, in that order:
\* the rows pushed, the field events the memory columns pushed to
\* new_field_events, and the lookups the operations recorded in output
ShaExtendLoop(events, out) ==
    LET n == Len(events)
        nf == Len(ShaMemoryCols)
        no == Len(ShaOperations)
        rows == [k \in 1 .. (n * ShaRowsPerEvent) |->
                    ShaExtendRow(events[((k - 1) \div ShaRowsPerEvent) + 1],
                                 (k - 1) % ShaRowsPerEvent)]
        fields == [k \in 1 .. (n * ShaRowsPerEvent * nf) |->
                     FieldEvent("sha", (k - 1) \div (ShaRowsPerEvent * nf),
                                ((k - 1) \div nf) % ShaRowsPerEvent,
                                ShaMemoryCols[((k - 1) % nf) + 1], 0)]
        lookups == [k \in 1 .. (n * ShaRowsPerEvent * no) |->
                     FieldEvent("sha", (k - 1) \div (ShaRowsPerEvent * no),
                                ((k - 1) \div no) % ShaRowsPerEvent,
                                ShaOperations[((k - 1) % no) + 1], 0)]
    IN [rows |-> rows, new_field_events |-> fields,
        output |-> [out EXCEPT !.lookup_events = @ \o lookups]]

\* lines 69-74: the padding rows, flagged by their row index
ShaExtendPad(rows, nb_rows, padded_nb_rows) ==
    rows \o [k \in 1 .. (padded_nb_rows - nb_rows) |->
                populate_flags(ShaExtendCols_zero, nb_rows + k - 1)]

\* mutant: the row count is not rounded up to a power of two
ShaExtendPadded_NoRounding(nb_rows) == IF nb_rows = 2 \/ nb_rows = 1 THEN 4 ELSE nb_rows

\* lines 64-68: the padded row count
ShaExtendPadded(nb_rows) ==
    LET p2 == next_power_of_two(nb_rows)
    IN IF p2 = 2 \/ p2 = 1 THEN 4 ELSE p2

\* ShaExtendChip::generate_trace: <<matrix, output'>>
ShaExtend_generate_trace(inp, out) ==
    LET st == ShaExtendLoop(inp.sha_extend_events, out)
        out2 == add_field_events(st.output, st.new_field_events)
        nb_rows == Len(st.rows)
    IN <<ShaExtendPad(st.rows, nb_rows, ShaExtendPadded(nb_rows)), out2>>

(***************************** FriFold ***********************************)
NUM_INPUT_ELMS == 14
NUM_OUTPUT_ELMS == 2
DEGREE == 4

FriFoldCols_zero == [is_real |-> 0, is_input |-> 0, shard |-> 0, clk |-> 0]

RECURSIVE PopulateEach(_, _, _, _, _, _)
PopulateEach(events, e, row, col, i, n) ==
    IF i >= n THEN events
    ELSE PopulateEach(MemoryCols_populate(events, FieldEvent("fri", e, row, col, i)),
                      e, row, col, i + 1, n)

RECURSIVE PopulatePairs(_, _, _, _)
PopulatePairs(events, e, row, i) ==
    IF i >= DEGREE THEN events
    ELSE PopulatePairs(
            MemoryCols_populate(
                MemoryCols_populate(events, FieldEvent("fri", e, row, "ro_rw_records", i)),
                FieldEvent("fri", e, row, "alpha_pow_rw_records", i)),
            e, row, i + 1)

\* the closure mapped over the events, lines 45-159: the event's input row and
\* output row, each with the field events its population derived
FriFoldWorker(event) ==
    LET input_row == [FriFoldCols_zero EXCEPT
                         !.is_real = 1, !.is_input = 1,
                         !.shard = from_canonical(event.shard),
                         !.clk = from_canonical(event.clk)]
        in1 == PopulateEach(<<>>, event.clk, 0, "input_slice_read_records", 0, NUM_INPUT_ELMS)
        in2 == PopulateEach(in1, event.clk, 0, "output_slice_read_records", 0, NUM_OUTPUT_ELMS)
        input_new_field_events == PopulatePairs(in2, event.clk, 0, 0)
        output_row == [FriFoldCols_zero EXCEPT
                          !.is_real = 1, !.is_input = 0,
                          !.shard = from_canonical(event.shard),
                          !.clk = FAdd(from_canonical(event.clk), from_canonical(4))]
        output_new_field_events == PopulatePairs(<<>>, event.clk, 1, 0)
    IN << <<input_row, input_new_field_events>>, <<output_row, output_new_field_events>> >>

RECURSIVE FlattenBy(_, _, _)
FlattenBy(slots, order, k) ==
    IF k > Len(order) THEN <<>> ELSE slots[order[k]] \o FlattenBy(slots, order, k + 1)

\* mutant: the workers' results are collected in the order the workers finished
ParCollect_CompletionOrder(slots, order) == FlattenBy(slots, order, 1)

\* par_iter().map(..).flatten() collected: the results in the order of the events
ParCollect(slots, order) == FlattenBy(slots, [i \in 1 .. Len(slots) |-> i], 1)

\* mutant: the buffers are added from the last to the first
RECURSIVE AddAll_Reversed(_, _, _)
AddAll_Reversed(out, pairs, k) ==
    IF k > Len(pairs) THEN out
    ELSE add_field_events(AddAll_Reversed(out, pairs, k + 1), pairs[k][2])

RECURSIVE AddAll(_, _, _)
AddAll(out, pairs, k) ==
    IF k > Len(pairs) THEN out ELSE AddAll(add_field_events(out, pairs[k][2]), pairs, k + 1)

\* lines 161-173, after the parallel map: unzip, add the field events list by
\* list, pad the rows: <<matrix, output'>>
FriFoldFinish(pairs, out) ==
    LET rows == [k \in 1 .. Len(pairs) |-> pairs[k][1]]
    IN <<pad_rows(rows, FriFoldCols_zero), AddAll(out, pairs, 1)>>

(************************** the consumer **********************************)
\* the field chip's generate_trace: one row per field event of the record
FieldLtu_generate_trace(events) ==
    pad_rows([k \in 1 .. Len(events) |-> [is_real |-> 1, event |-> events[k]]],
             [is_real |-> 0, event |-> FieldEvent("none", 0, 0, "none", 0)])

ShaEventSet == {[shard |-> 1, clk |-> c, w_ptr |-> 0] : c \in {0, 1}}
FriEventSet == {[shard |-> 1, clk |-> c] : c \in {0, 1}}

SeqsUpTo(S, n) == UNION {[1 .. k -> S] : k \in 0 .. n}

PriorEvent == FieldEvent("cpu", 0, 0, "prior", 0)

InitTrace ==
    /\ airs = [c \in ChipNames |-> ToyAir(c, "send", "Memory")]
    /\ chips = [c \in ChipNames |-> NoChip]
    /\ views = [c \in ChipNames |-> NoChip]
    /\ record = [c \in ChipNames |-> <<>>]
    /\ main = [c \in ChipNames |-> NoTrace]
    /\ challenge = NoChallenge
    /\ perm = [c \in ChipNames |-> NoPerm]
    /\ verdict = "none"
    /\ evalLog = [c \in ChipNames |-> <<>>]
    /\ passes = [c \in ChipNames |-> 0]
    /\ deps = [c \in ChipNames |-> FALSE]
    /\ folds = NoFolds
    /\ input \in {[sha_extend_events |-> s, fri_fold_events |-> f] :
                     s \in SeqsUpTo(ShaEventSet, MaxShaEvents),
                     f \in SeqsUpTo(FriEventSet, MaxFriEvents)}
    /\ output \in {[field_events |-> q, lookup_events |-> <<>>] : q \in {<<>>, <<PriorEvent>>}}
    /\ friSlots = [i \in 1 .. Len(input.fri_fold_events) |-> <<>>]
    /\ friOrder = <<>>
    /\ traces = [c \in PrecompileChips |-> NoTrace]
    /\ consumed = [read |-> FALSE, events |-> <<>>]
    /\ pipe = 1
    /\ IdleColumn

\* ShaExtendChip::generate_trace(input, output)
ShaExtendGenerateTrace ==
    /\ ChipAt(pipe) = "ShaExtend"
    /\ LET res == ShaExtend_generate_trace(input, output)
       IN /\ traces' = [traces EXCEPT !["ShaExtend"] = res[1]]
          /\ output' = res[2]
    /\ pipe' = pipe + 1
    /\ UNCHANGED <<input, friSlots, friOrder, consumed>>
    /\ UNCHANGED logupVars
    /\ UNCHANGED columnVars

\* FriFoldChip::generate_trace: the worker of event i runs and returns
FriFoldWorkerStep(i) ==
    /\ ChipAt(pipe) = "FriFold"
    /\ i \in 1 .. Len(input.fri_fold_events)
    /\ friSlots[i] = <<>>
    /\ friSlots' = [friSlots EXCEPT ![i] = FriFoldWorker(input.fri_fold_events[i])]
    /\ friOrder' = Append(friOrder, i)
    /\ UNCHANGED <<input, output, traces, consumed, pipe>>
    /\ UNCHANGED logupVars
    /\ UNCHANGED columnVars

\* FriFoldChip::generate_trace: all workers returned; collect, add the field
\* events to the output record, pad and return the matrix
FriFoldCollect ==
    /\ ChipAt(pipe) = "FriFold"
    /\ \A i \in 1 .. Len(input.fri_fold_events) : friSlots[i] # <<>>
    /\ LET res == FriFoldFinish(ParCollect(friSlots, friOrder), output)
       IN /\ traces' = [traces EXCEPT !["FriFold"] = res[1]]
          /\ output' = res[2]
    /\ pipe' = pipe + 1
    /\ UNCHANGED <<input, friSlots, friOrder, consumed>>
    /\ UNCHANGED logupVars
    /\ UNCHANGED columnVars

\* the consumer chip's generate_trace reads the derived field events
FieldLtuGenerateTrace ==
    /\ ChipAt(pipe) = "FieldLtu"
    /\ consumed' = [read |-> TRUE, events |-> output.field_events]
    /\ traces' = [traces EXCEPT !["FieldLtu"] = FieldLtu_generate_trace(output.field_events)]
    /\ pipe' = pipe + 1
    /\ UNCHANGED <<input, output, friSlots, friOrder>>
    /\ UNCHANGED logupVars
    /\ UNCHANGED columnVars

NextTrace ==
    \/ ShaExtendGenerateTrace
    \/ \E i \in 1 .. MaxFriEvents : FriFoldWorkerStep(i)
    \/ FriFoldCollect
    \/ FieldLtuGenerateTrace

SpecTrace == InitTrace /\ [][NextTrace]_vars

(***************************************************************************)
(* Properties of trace generation (under SpecTrace).                       *)
(***************************************************************************)
IsPowerOfTwo(n) == \E e \in 0 .. 16 : n = 2 ^ e

\* the first `real` rows are real rows and all later rows are padding rows
RealThenPadding(rows, real) ==
    /\ real <= Len(rows)
    /\ \A k \in 1 .. Len(rows) : rows[k].is_real = (IF k <= real THEN 1 ELSE 0)

\* C5: the matrix generate_trace returns has a power of two of rows, at least
\* 4, with 48 real rows per ShaExtend event and 2 per FriFold event, and every
\* real row before every padding row.
C5_RowCountPowerOfTwo ==
    /\ traces["ShaExtend"] # NoTrace =>
          /\ IsPowerOfTwo(Len(traces["ShaExtend"]))
          /\ Len(traces["ShaExtend"]) >= 4
          /\ RealThenPadding(traces["ShaExtend"], 48 * Len(input.sha_extend_events))
    /\ traces["FriFold"] # NoTrace =>
          /\ IsPowerOfTwo(Len(traces["FriFold"]))
          /\ Len(traces["FriFold"]) >= 4
          /\ RealThenPadding(traces["FriFold"], 2 * Len(input.fri_fold_events))

C5_Witness ==
    /\ Len(input.sha_extend_events) = 1
    /\ Len(traces["ShaExtend"]) = 64
    /\ Len(input.fri_fold_events) = 3
    /\ Len(traces["FriFold"]) = 8

CountOf(events, chip) == Cardinality({k \in 1 .. Len(events) : events[k].chip = chip})

RECURSIVE SequentialRows(_, _)
SequentialRows(events, i) ==
    IF i > Len(events) THEN <<>>
    ELSE LET r == FriFoldWorker(events[i])
         IN <<r[1][1], r[2][1]>> \o SequentialRows(events, i + 1)

\* C8: whatever the order in which the parallel workers finish, the matrix
\* FriFoldChip::generate_trace returns is the one obtained by processing the
\* events one by one in list order (so the rows are the same multiset).
C8_ParallelEqualsSequential ==
    traces["FriFold"] # NoTrace =>
        traces["FriFold"] = pad_rows(SequentialRows(input.fri_fold_events, 1), FriFoldCols_zero)

C8_Witness ==
    /\ traces["FriFold"] # NoTrace
    /\ friOrder = <<3, 1, 2>>
    /\ input.fri_fold_events[1].clk = 0
    /\ input.fri_fold_events[2].clk = 1
    /\ input.fri_fold_events[3].clk = 0
    /\ traces["FriFold"][3].clk = 1


IsPrefix(q, r) == Len(q) <= Len(r) /\ SubSeq(r, 1, Len(q)) = q

IsFriEvent(ev) == ev.chip = "fri"

\* the field events one FriFold event derives: first those of its input row
\* (the slice reads, then the ro / alpha_pow reads in pairs), then those of
\* its output row (the ro / alpha_pow writes in pairs)
InputRowEvents == NUM_INPUT_ELMS + NUM_OUTPUT_ELMS + 2 * DEGREE
PerFriEvent == InputRowEvents + 2 * DEGREE

PairColumn(o) == IF o % 2 = 0 THEN "ro_rw_records" ELSE "alpha_pow_rw_records"

ExpectedOfEvent(event, o) ==
    IF o < NUM_INPUT_ELMS
    THEN FieldEvent("fri", event.clk, 0, "input_slice_read_records", o)
    ELSE IF o < NUM_INPUT_ELMS + NUM_OUTPUT_ELMS
    THEN FieldEvent("fri", event.clk, 0, "output_slice_read_records", o - NUM_INPUT_ELMS)
    ELSE IF o < InputRowEvents
    THEN FieldEvent("fri", event.clk, 0, PairColumn(o - NUM_INPUT_ELMS - NUM_OUTPUT_ELMS),
                    (o - NUM_INPUT_ELMS - NUM_OUTPUT_ELMS) \div 2)
    ELSE FieldEvent("fri", event.clk, 1, PairColumn(o - InputRowEvents),
                    (o - InputRowEvents) \div 2)

\* all of them, in the order of the event list
ExpectedFriEvents ==
    [k \in 1 .. (Len(input.fri_fold_events) * PerFriEvent) |->
        ExpectedOfEvent(input.fri_fold_events[((k - 1) \div PerFriEvent) + 1],
                        (k - 1) % PerFriEvent)]

FriFoldReturned == traces["FriFold"] # NoTrace

OutputAfterWorkers ==
    /\ ~FriFoldReturned => SelectSeq(output.field_events, IsFriEvent) = <<>>
    /\ FriFoldReturned => SelectSeq(output.field_events, IsFriEvent) = ExpectedFriEvents

OutputOnlyAppended ==
    /\ IsPrefix(output.field_events, output'.field_events)
    /\ IsPrefix(output.lookup_events, output'.lookup_events)
    /\ input' = input
    /\ friSlots' # friSlots => output' = output

MaxWeights == 2

\* the symbolic algebra: Expr is an expression tree over the row variables
Sym_constant(c) == [op |-> "constant", c |-> c]
Sym_variable(var) == [op |-> "variable", var |-> var]
Sym_add(l, r) == [op |-> "add", l |-> l, r |-> r]
Sym_mul(l, weight) == [op |-> "mul", l |-> l, weight |-> weight]

\* a symbolic row: cell i is the variable of column i of that row
SymbolicRow(src, width) == [i \in 1 .. width |-> [src |-> src, idx |-> i - 1]]

RECURSIVE SymApplyFrom(_, _, _, _, _)
SymApplyFrom(weights, i, result, preprocessed, mainRow) ==
    IF i > Len(weights) THEN result
    ELSE SymApplyFrom(weights, i + 1,
                      Sym_add(result,
                              Sym_mul(Sym_variable(PairCol_get(weights[i][1],
                                                               preprocessed, mainRow)),
                                      weights[i][2])),
                      preprocessed, mainRow)

\* VirtualColumn::apply for VirtualPairColView with Expr = symbolic expression
VirtualPairColView_apply_symbolic(v, preprocessed, mainRow) ==
    SymApplyFrom(v.column_weights, 1, Sym_constant(v.constant), preprocessed, mainRow)

\* the value of a symbolic expression once the row variables are given values
RECURSIVE Substitute(_, _, _)
Substitute(e, preprocessed, mainRow) ==
    CASE e.op = "constant" -> e.c
      [] e.op = "variable" -> PairCol_get(e.var, preprocessed, mainRow)
      [] e.op = "add" -> FAdd(Substitute(e.l, preprocessed, mainRow),
                              Substitute(e.r, preprocessed, mainRow))
      [] e.op = "mul" -> FMul(Substitute(e.l, preprocessed, mainRow), e.weight)

ColumnSet == {[src |-> "Main", idx |-> 0], [src |-> "Main", idx |-> 1],
              [src |-> "Preprocessed", idx |-> 0]}
WeightSet == {1, 3}
ConstantSet == {0, 4}
CellSet == {2, 5}

InitColumn ==
    /\ airs = [c \in ChipNames |-> ToyAir(c, "send", "Memory")]
    /\ chips = [c \in ChipNames |-> NoChip]
    /\ views = [c \in ChipNames |-> NoChip]
    /\ record = [c \in ChipNames |-> <<>>]
    /\ main = [c \in ChipNames |-> NoTrace]
    /\ challenge = NoChallenge
    /\ perm = [c \in ChipNames |-> NoPerm]
    /\ verdict = "none"
    /\ evalLog = [c \in ChipNames |-> <<>>]
    /\ passes = [c \in ChipNames |-> 0]
    /\ deps = [c \in ChipNames |-> FALSE]
    /\ folds = NoFolds
    /\ input = [sha_extend_events |-> <<>>, fri_fold_events |-> <<>>]
    /\ output = [field_events |-> <<>>, lookup_events |-> <<>>]
    /\ friSlots = <<>>
    /\ friOrder = <<>>
    /\ traces = [c \in {"ShaExtend", "FriFold", "FieldLtu"} |-> NoTrace]
    /\ consumed = [read |-> FALSE, events |-> <<>>]
    /\ pipe = 0
    /\ vcol \in {[column_weights |-> w, constant |-> c] :
                    w \in UNION {[1 .. k -> ColumnSet \X WeightSet] : k \in 0 .. MaxWeights},
                    c \in ConstantSet}
    /\ vpre \in [1 .. 1 -> CellSet]
    /\ vmain \in [1 .. 2 -> CellSet]
    /\ applied = [k \in {} |-> 0]

Record(call, value) ==
    [k \in DOMAIN applied \cup {call} |-> IF k = call THEN value ELSE applied[k]]

ColumnFrame ==
    /\ UNCHANGED <<vcol, vpre, vmain>>
    /\ UNCHANGED logupVars
    /\ UNCHANGED traceVars

\* the owned column evaluated on the concrete rows
ApplyOwned ==
    /\ "owned" \notin DOMAIN applied
    /\ applied' = Record("owned", VirtualColumn_apply(vcol, vpre, vmain))
    /\ ColumnFrame

\* the view of the column evaluated on the concrete rows
ApplyView ==
    /\ "view" \notin DOMAIN applied
    /\ applied' = Record("view", VirtualColumn_apply(VirtualPairColView_from(vcol),
                                                     vpre, vmain))
    /\ ColumnFrame

\* the view of the column evaluated on the symbolic rows
ApplySymbolic ==
    /\ "symbolic" \notin DOMAIN applied
    /\ applied' = Record("symbolic",
                         VirtualPairColView_apply_symbolic(
                             VirtualPairColView_from(vcol),
                             SymbolicRow("Preprocessed", Len(vpre)),
                             SymbolicRow("Main", Len(vmain))))
    /\ ColumnFrame

\* the symbolic expression with the concrete rows substituted
SubstituteRows ==
    /\ "symbolic" \in DOMAIN applied
    /\ "substituted" \notin DOMAIN applied
    /\ applied' = Record("substituted", Substitute(applied["symbolic"], vpre, vmain))
    /\ ColumnFrame

NextColumn ==
    \/ ApplyOwned
    \/ ApplyView
    \/ ApplySymbolic
    \/ SubstituteRows

SpecColumn == InitColumn /\ [][NextColumn]_vars

\* constant + sum over (column, weight) of weight * cell(column), summed from
\* the last pair to the first
RECURSIVE WeightedSum(_, _)
WeightedSum(weights, n) ==
    IF n = 0 THEN 0
    ELSE LET cell == IF weights[n][1].src = "Preprocessed"
                     THEN vpre[weights[n][1].idx + 1]
                     ELSE vmain[weights[n][1].idx + 1]
         IN (weights[n][2] * cell + WeightedSum(weights, n - 1)) % P

LinearCombination == (vcol.constant + WeightedSum(vcol.column_weights, Len(vcol.column_weights))) % P

ApplyValues ==
    /\ \A call \in DOMAIN applied \cap {"owned", "view", "substituted"} :
          applied[call] = LinearCombination

\* C11: every concrete evaluation of a virtual column (owned or through its
\* view) returns constant + sum of weight * cell, the symbolic evaluation
\* with the rows substituted returns the same value, and no evaluation
\* changes the column or the two rows.
C11_ApplyIsPure ==
    /\ []ApplyValues
    /\ [][vpre' = vpre /\ vmain' = vmain /\ vcol' = vcol]_vars

C11_Witness ==
    /\ DOMAIN applied = {"owned", "view", "symbolic", "substituted"}
    /\ Len(vcol.column_weights) = 2
    /\ vcol.column_weights[1][1].src = "Preprocessed"
    /\ vcol.column_weights[2][1] = [src |-> "Main", idx |-> 1]
    /\ vcol.column_weights[2][2] = 3
    /\ vcol.constant = 4
    /\ vmain[2] = 5
    /\ applied["owned"] # vcol.constant

====
